---- MODULE Spec2Model ----
(***************************************************************************)
(* Model of the finite-state-machine dispatch engine of                    *)
(* src/src/state-machine.c: state_machine_event() and                      *)
(* state_machine_current_state(), called by a few threads on one shared    *)
(* State_machine, with the embedder's lock modelled as a non-reentrant     *)
(* mutex.  Each thread's position inside a call is its program counter;    *)
(* every statement group of the C functions is one action.                 *)
(***************************************************************************)
EXTENDS Integers, Sequences, FiniteSets, TLC

(* ---------------------------------------------------------------- *)
(* Program constants                                                *)
(* ---------------------------------------------------------------- *)

STATE_MACHINE_SUCCESS == 0

STATE_MACHINE_WOULD_BLOCK == 1

STATE_MACHINE_NONBLOCK == 2048

STATE_0 == 0

STATE_1 == 1

STATE_2 == 2

MAX_STATE == 3

EVENT_INC == 0

EVENT_DEC == 1

MAX_EVENT == 2

(* ---------------------------------------------------------------- *)
(* Bounds of the model                                              *)
(* ---------------------------------------------------------------- *)

\* Number of embedder threads sharing the machine.
NumThreads == 2

\* Total number of calls issued (bounds a run).
MaxCalls == 2

\* Largest embedder-defined status a resolver or a cleanup returns.
MaxStatus == 2

Threads == 1..NumThreads

NoThread == 0

NULL == "NULL"

\* The value handed to the machine as its private data pointer.
DATA == "data"

(* ---------------------------------------------------------------- *)
(* State_machine_transition                                         *)
(* ---------------------------------------------------------------- *)

\* STATE_MACHINE_TRANSITION(s, e, ns, h)
STATE_MACHINE_TRANSITION(s, e, ns, h) ==
    [valid |-> TRUE, cause |-> e, current_state |-> s, is_transition |-> TRUE,
     next_state |-> ns, on_enter |-> h, on_undefined_transition |-> NULL]

\* STATE_MACHINE_NO_TRANSITION(s, e, h)
STATE_MACHINE_NO_TRANSITION(s, e, h) ==
    [valid |-> TRUE, cause |-> e, current_state |-> s, is_transition |-> FALSE,
     next_state |-> 0, on_enter |-> NULL, on_undefined_transition |-> h]

\* The local `State_machine_transition *transition` before anything is
\* stored in it: an uninitialised pointer.
UNSET ==
    [valid |-> FALSE, cause |-> 0, current_state |-> 0, is_transition |-> FALSE,
     next_state |-> 0, on_enter |-> NULL, on_undefined_transition |-> NULL]

IS_TRANSITION(t) == t.is_transition

is_sm_success(r) == r = STATE_MACHINE_SUCCESS

is_sm_failure(r) == r # STATE_MACHINE_SUCCESS

(* ---------------------------------------------------------------- *)
(* Transition tables and transition functions of the embedder       *)
(* ---------------------------------------------------------------- *)

\* A table State_machine_transition[max_state][max_event] is handed over as
\* a flat pointer: the sequence of its rows, row 0 first (offset 0 is the
\* sequence's element 1).
on_enter == "on_enter"

on_undefined == "on_undefined"

\* The table of the example program.
transition_table ==
    << STATE_MACHINE_TRANSITION(STATE_0, EVENT_INC, STATE_1, on_enter),
       STATE_MACHINE_NO_TRANSITION(STATE_0, EVENT_DEC, on_undefined),
       STATE_MACHINE_TRANSITION(STATE_1, EVENT_INC, STATE_2, on_enter),
       STATE_MACHINE_TRANSITION(STATE_1, EVENT_DEC, STATE_0, on_enter),
       STATE_MACHINE_NO_TRANSITION(STATE_2, EVENT_INC, on_undefined),
       STATE_MACHINE_TRANSITION(STATE_2, EVENT_DEC, STATE_1, on_enter) >>

\* A table with the cases the example leaves out: callbacks left NULL
\* (both macros allow it), a transition to the state it leaves, and an
\* entry, (STATE_2, EVENT_INC), that names a state that does not exist
\* (nothing checks a table's contents when it is installed).
mixed_table ==
    << STATE_MACHINE_TRANSITION(STATE_0, EVENT_INC, STATE_2, NULL),
       STATE_MACHINE_NO_TRANSITION(STATE_0, EVENT_DEC, NULL),
       STATE_MACHINE_TRANSITION(STATE_1, EVENT_INC, STATE_1, on_enter),
       STATE_MACHINE_NO_TRANSITION(STATE_1, EVENT_DEC, on_undefined),
       STATE_MACHINE_TRANSITION(STATE_2, EVENT_INC, MAX_STATE, on_enter),
       STATE_MACHINE_TRANSITION(STATE_2, EVENT_DEC, STATE_0, on_enter) >>

Tables == {transition_table, mixed_table}

\* A State_machine_transition_function as the map from (current_state,
\* event) to what one call of it yields: its return value and what it
\* stored through its last argument.  This one answers like the example's
\* table, except that it fails for (STATE_0, EVENT_DEC) with the status
\* MaxStatus, storing nothing, and for (STATE_2, EVENT_DEC) with the
\* status 1, after it stored a transition, and that its transition for
\* (STATE_1, EVENT_DEC) has no callback.
failing_function ==
    [i \in 1..Len(transition_table) |->
        CASE i = 2 -> [ret |-> MaxStatus, transition |-> UNSET]
          [] i = 4 -> [ret |-> STATE_MACHINE_SUCCESS,
                       transition |-> STATE_MACHINE_TRANSITION(STATE_1, EVENT_DEC,
                                                               STATE_0, NULL)]
          [] i = 6 -> [ret |-> 1,
                       transition |-> STATE_MACHINE_TRANSITION(STATE_2, EVENT_DEC,
                                                               STATE_1, on_enter)]
          [] OTHER -> [ret |-> STATE_MACHINE_SUCCESS, transition |-> transition_table[i]]]

Functions == {failing_function}

\* The statuses a cleanup function may return: success, the value that is
\* also STATE_MACHINE_WOULD_BLOCK, and a status of its own.
CleanupStatuses == {STATE_MACHINE_SUCCESS, 1, MaxStatus}

(* ---------------------------------------------------------------- *)
(* State_machine and its initialisation                             *)
(* ---------------------------------------------------------------- *)

STATE_MACHINE_NO_LOCKING == [try_take |-> NULL, take |-> NULL, give |-> NULL]

\* A State_machine_locking with all three operations supplied.
LOCKING == [try_take |-> "try_take", take |-> "take", give |-> "give"]

\* The test answering that no lock was supplied.
USE_LOCKING_never(m) == FALSE

USE_LOCKING(m) == m.lock.take # NULL

LOCKING_DEFINITION_CONSISTENT(lock) ==
    \/ (lock.take = NULL /\ lock.try_take = NULL /\ lock.give = NULL)
    \/ (lock.take # NULL /\ lock.try_take # NULL /\ lock.give # NULL)

\* The initialisation without `SM_CURRENT_STATE(sm) = init_state`: the state
\* stays what memset() made it.
state_machine_init_common_state_unset(max_state, max_event, init_state, lock, using_table, data) ==
    [max_state |-> max_state, max_event |-> max_event, current_state |-> 0,
     lock |-> lock, using_table |-> using_table, table |-> << >>,
     function |-> << >>, cleanup |-> NULL, data |-> data]

state_machine_init_common(max_state, max_event, init_state, lock, using_table, data) ==
    [max_state |-> max_state, max_event |-> max_event, current_state |-> init_state,
     lock |-> lock, using_table |-> using_table, table |-> << >>,
     function |-> << >>, cleanup |-> NULL, data |-> data]

state_machine_init_table(max_state, max_event, init_state, locking, tbl, data) ==
    [state_machine_init_common(max_state, max_event, init_state, locking, TRUE, data)
        EXCEPT !.table = tbl]

state_machine_init_function(max_state, max_event, init_state, locking, fn, cleanup, data) ==
    [state_machine_init_common(max_state, max_event, init_state, locking, FALSE, data)
        EXCEPT !.function = fn, !.cleanup = cleanup]

\* The machines the model starts from: every initial state, both locking
\* policies, both strategies, with and without a cleanup function.
Machines ==
    {state_machine_init_table(MAX_STATE, MAX_EVENT, s0, lk, tbl, DATA) :
        s0 \in 0..(MAX_STATE - 1), lk \in {STATE_MACHINE_NO_LOCKING, LOCKING},
        tbl \in Tables}
    \cup
    {state_machine_init_function(MAX_STATE, MAX_EVENT, s0, lk, fn, cl, DATA) :
        s0 \in 0..(MAX_STATE - 1), lk \in {STATE_MACHINE_NO_LOCKING, LOCKING},
        fn \in Functions, cl \in {NULL, "cleanup"}}

(* ---------------------------------------------------------------- *)
(* State                                                            *)
(* ---------------------------------------------------------------- *)

VARIABLES
    sm,         \* the shared State_machine record
    mutex,      \* the embedder's lock: the thread holding it, or NoThread
    pc,         \* per thread: its position inside the call it is making
    call,       \* per thread: the call it is making and its arguments
    loc,        \* per thread: the local variables of the function it runs
    log,        \* per thread: what the current call has invoked so far
    serial,     \* the state of a single-threaded machine that was sent the
                \* same events, in the order in which the dispatches took
                \* the lock
    last,       \* the thread whose dispatch took the lock last
    init,       \* the init_state the machine was constructed with
    ncalls,     \* calls issued so far
    aborted,    \* an assert() failed: the process is gone
    stack,      \* per thread: the frames of the calls that are waiting for a
                \* callback of theirs to return
    ctor,       \* the call that initialised the machine, where one is made
    writes      \* how many times the machine's current_state was written

vars == <<sm, mutex, pc, call, loc, log, serial, last, init, ncalls, aborted,
          stack, ctor, writes>>

\* One entry of a call's log: an operation and up to three numbers.
Ev(op, a, b, c) == [op |-> op, a |-> a, b |-> b, c |-> c]

\* 1 if thread t holds the lock, else 0.
Holds(t) == IF mutex = t THEN 1 ELSE 0

\* The embedder supplied a lock with the machine.
LockingSupplied(m) == m.lock = LOCKING

\* A call: the function, its arguments, whether it got into the critical
\* section and the machine's state when it did.
NoCall == [op |-> "none", event |-> 0, flags |-> 0, entered |-> FALSE, s0 |-> 0]

\* The locals of state_machine_event() (and `state`, the output of
\* state_machine_current_state()); -1 marks an output not written.
NoLocals ==
    [ret |-> STATE_MACHINE_SUCCESS, max_event |-> 0, max_state |-> 0,
     current_state |-> 0, previous_state |-> 0, data |-> NULL,
     transition |-> UNSET, state |-> -1]

\* No frame is waiting in any thread.
NoFrames == [t \in Threads |-> << >>]

\* The arguments of a call of state_machine_init_table() or
\* state_machine_init_function(); `transition` is the table or the
\* transition function (<< >> for a null pointer), and `accepted` says
\* that the call got past its assertions.  op is "none" where the machine
\* is taken as initialised.
NoCtor ==
    [op |-> "none", max_state |-> 0, max_event |-> 0, init_state |-> 0,
     locking |-> STATE_MACHINE_NO_LOCKING, transition |-> << >>,
     cleanup |-> NULL, data |-> NULL, accepted |-> TRUE]

\* A test of the flags that finds no bit set.
FlagSet_never(flags, bit) == FALSE

\* flags & bit, for a bit that is a power of two.
FlagSet(flags, bit) == (flags \div bit) % 2 = 1

Init ==
    /\ sm \in Machines
    /\ mutex = NoThread
    /\ pc = [t \in Threads |-> "idle"]
    /\ call = [t \in Threads |-> NoCall]
    /\ loc = [t \in Threads |-> NoLocals]
    /\ log = [t \in Threads |-> << >>]
    /\ serial = sm.current_state
    /\ last = NoThread
    /\ init = sm.current_state
    /\ ncalls = 0
    /\ aborted = FALSE
    /\ stack = NoFrames
    /\ ctor = NoCtor
    /\ writes = 0

(* ---------------------------------------------------------------- *)
(* The embedder's lock: a non-reentrant mutex                       *)
(* ---------------------------------------------------------------- *)

\* bool try_take(sm): takes the lock if it is free and says whether it did.
try_take(mx, t) ==
    IF mx = NoThread THEN [ok |-> TRUE, mutex |-> t] ELSE [ok |-> FALSE, mutex |-> mx]

\* take() of a lock that the thread holding it may take again.
take_enabled_reentrant(mx, t) == mx = NoThread \/ mx = t

\* void take(sm): returns once the lock is free, holding it.
take_enabled(mx, t) == mx = NoThread

\* void give(sm)
give(mx, t) == NoThread

(* ---------------------------------------------------------------- *)
(* Callers                                                          *)
(* ---------------------------------------------------------------- *)

\* A thread calls when it is in neither function: it has made no call yet,
\* or its last call has returned (the call's return value, output and log
\* stay until its next call).  A machine without locking is for
\* single-threaded use: only thread 1 calls it.
MayCall(t) ==
    /\ ~aborted
    /\ pc[t] \in {"idle", "returned"}
    /\ stack[t] = << >>
    /\ ncalls < MaxCalls
    /\ (LockingSupplied(sm) \/ t = 1)

\* state_machine_event(sm, event, event_data, flags) is called with an
\* event of the machine.
state_machine_event_call(t) ==
    /\ MayCall(t)
    /\ \E event \in 0..(MAX_EVENT - 1), flags \in {0, STATE_MACHINE_NONBLOCK} :
          call' = [call EXCEPT ![t] = [NoCall EXCEPT !.op = "event",
                                          !.event = event, !.flags = flags]]
    /\ pc' = [pc EXCEPT ![t] = "lock_take"]
    /\ loc' = [loc EXCEPT ![t] = NoLocals]
    /\ log' = [log EXCEPT ![t] = << >>]
    /\ ncalls' = ncalls + 1
    /\ UNCHANGED <<sm, mutex, serial, last, init, stack, ctor, aborted, writes>>

\* state_machine_current_state(sm, &state, flags) is called.
state_machine_current_state_call(t) ==
    /\ MayCall(t)
    /\ \E flags \in {0, STATE_MACHINE_NONBLOCK} :
          call' = [call EXCEPT ![t] = [NoCall EXCEPT !.op = "current_state",
                                          !.flags = flags]]
    /\ pc' = [pc EXCEPT ![t] = "lock_take"]
    /\ loc' = [loc EXCEPT ![t] = NoLocals]
    /\ log' = [log EXCEPT ![t] = << >>]
    /\ ncalls' = ncalls + 1
    /\ UNCHANGED <<sm, mutex, serial, last, init, stack, ctor, aborted, writes>>

(* ---------------------------------------------------------------- *)
(* lock_take() and lock_give()                                      *)
(* ---------------------------------------------------------------- *)

\* lock_take() that reports a lock it has taken as one it could not take.
lock_take_status_blocked(m, flags, try_ok) ==
    IF USE_LOCKING(m) THEN STATE_MACHINE_WOULD_BLOCK ELSE STATE_MACHINE_SUCCESS

\* lock_take() without its test of what try_take() answered.
lock_take_status_ignoring_try(m, flags, try_ok) == STATE_MACHINE_SUCCESS

\* The value lock_take() returns, given what try_take() answered.
lock_take_status(m, flags, try_ok) ==
    IF USE_LOCKING(m) /\ FlagSet(flags, STATE_MACHINE_NONBLOCK) /\ ~try_ok
    THEN STATE_MACHINE_WOULD_BLOCK
    ELSE STATE_MACHINE_SUCCESS

\* The state a single-threaded machine m in state s is in after it is
\* sent event e: the entry for (s, e), followed if the lookup succeeded and
\* the entry is a transition.
SerialStep(m, s, e) ==
    IF e >= m.max_event \/ s >= m.max_state
    THEN s
    ELSE LET i == s * m.max_event + e + 1
             r == IF m.using_table
                  THEN [ret |-> STATE_MACHINE_SUCCESS, transition |-> m.table[i]]
                  ELSE m.function[i]
         IN IF r.ret = STATE_MACHINE_SUCCESS /\ r.transition.is_transition
            THEN r.transition.next_state
            ELSE s

\* `if_sm_failure (ret = lock_take(sm, flags)) return ret;` in both public
\* functions: the caller returns at once, or goes on into the critical
\* section.  When a dispatch goes on, the single-threaded machine is sent
\* its event.
AfterLockTake(t, ret) ==
    /\ loc' = [loc EXCEPT ![t].ret = ret]
    /\ IF is_sm_failure(ret)
       THEN /\ pc' = [pc EXCEPT ![t] = "returned"]
            /\ UNCHANGED <<call, serial, last>>
       ELSE /\ pc' = [pc EXCEPT ![t] =
                        IF call[t].op = "event" THEN "snapshot" ELSE "read"]
            /\ call' = [call EXCEPT ![t].entered = TRUE, ![t].s0 = sm.current_state]
            /\ IF call[t].op = "event"
               THEN /\ serial' = SerialStep(sm, serial, call[t].event)
                    /\ last' = t
               ELSE UNCHANGED <<serial, last>>

\* lock_take() starts with ASSERT_LOCKING_DEFINITION_CONSISTENCY(SM_LOCK(sm)).
lock_take(t) ==
    /\ ~aborted
    /\ pc[t] = "lock_take"
    /\ IF ~LOCKING_DEFINITION_CONSISTENT(sm.lock)
       THEN /\ pc' = [pc EXCEPT ![t] = "aborted"]
            /\ aborted' = TRUE
            /\ UNCHANGED <<mutex, log, loc, call, serial, last>>
       ELSE /\ UNCHANGED aborted
            /\ \/ /\ ~USE_LOCKING(sm)
                  /\ UNCHANGED <<mutex, log>>
                  /\ AfterLockTake(t, lock_take_status(sm, call[t].flags, TRUE))
               \/ /\ USE_LOCKING(sm)
                  /\ FlagSet(call[t].flags, STATE_MACHINE_NONBLOCK)
                  /\ LET r == try_take(mutex, t) IN
                        /\ mutex' = r.mutex
                        /\ log' = [log EXCEPT ![t] =
                                     Append(@, Ev("try_take", mutex, 0, 0))]
                        /\ AfterLockTake(t, lock_take_status(sm, call[t].flags, r.ok))
               \/ /\ USE_LOCKING(sm)
                  /\ ~FlagSet(call[t].flags, STATE_MACHINE_NONBLOCK)
                  /\ take_enabled(mutex, t)
                  /\ mutex' = t
                  /\ log' = [log EXCEPT ![t] = Append(@, Ev("take", mutex, 0, 0))]
                  /\ AfterLockTake(t, lock_take_status(sm, call[t].flags, TRUE))
    /\ UNCHANGED <<sm, init, stack, ctor, ncalls, writes>>

\* lock_give() that calls nothing.
lock_give_missing(t) == UNCHANGED <<mutex, log>>

\* lock_give(): what it does to the lock and to the caller's log.
lock_give(t) ==
    IF USE_LOCKING(sm)
    THEN /\ mutex' = give(mutex, t)
         /\ log' = [log EXCEPT ![t] = Append(@, Ev("give", mutex, 0, 0))]
    ELSE UNCHANGED <<mutex, log>>

(* ---------------------------------------------------------------- *)
(* state_machine_current_state()                                    *)
(* ---------------------------------------------------------------- *)

\* A read that leaves the machine in state 0.
current_state_read_clearing(t) ==
    /\ ~aborted
    /\ pc[t] = "read"
    /\ loc' = [loc EXCEPT ![t].state = sm.current_state]
    /\ log' = [log EXCEPT ![t] =
                 Append(@, Ev("read", sm.current_state, Holds(t), writes))]
    /\ pc' = [pc EXCEPT ![t] = "read_give"]
    /\ sm' = [sm EXCEPT !.current_state = 0]
    /\ UNCHANGED <<mutex, call, serial, last, init, stack, ctor, ncalls,
                   aborted, writes>>

\* *state = SM_CURRENT_STATE(sm);
current_state_read(t) ==
    /\ ~aborted
    /\ pc[t] = "read"
    /\ loc' = [loc EXCEPT ![t].state = sm.current_state]
    /\ log' = [log EXCEPT ![t] =
                 Append(@, Ev("read", sm.current_state, Holds(t), writes))]
    /\ pc' = [pc EXCEPT ![t] = "read_give"]
    /\ UNCHANGED <<sm, mutex, call, serial, last, init, stack, ctor, ncalls,
                   aborted, writes>>

\* lock_give(sm); return ret;
current_state_give(t) ==
    /\ ~aborted
    /\ pc[t] = "read_give"
    /\ lock_give(t)
    /\ pc' = [pc EXCEPT ![t] = "returned"]
    /\ UNCHANGED <<sm, call, loc, serial, last, init, stack, ctor, ncalls,
                   aborted, writes>>

(* ---------------------------------------------------------------- *)
(* state_machine_event()                                            *)
(* ---------------------------------------------------------------- *)

\* The assertions without the one on the event.
snapshot_asserts_state_only(m, event) == m.current_state < m.max_state

\* assert(event < max_event); assert(current_state < max_state); on the
\* copies just made of the machine m's members.
snapshot_asserts(m, event) == event < m.max_event /\ m.current_state < m.max_state

\* The copies made inside the critical section, previous_state set to the
\* invalid value max_state, and the two assertions on them.
event_snapshot(t) ==
    /\ ~aborted
    /\ pc[t] = "snapshot"
    /\ loc' = [loc EXCEPT ![t].max_event = sm.max_event,
                          ![t].max_state = sm.max_state,
                          ![t].current_state = sm.current_state,
                          ![t].data = sm.data,
                          ![t].previous_state = sm.max_state]
    /\ log' = [log EXCEPT ![t] = Append(@, Ev("read", sm.current_state, Holds(t), 0))]
    /\ IF snapshot_asserts(sm, call[t].event)
       THEN /\ pc' = [pc EXCEPT ![t] = "resolve"]
            /\ UNCHANGED aborted
       ELSE /\ pc' = [pc EXCEPT ![t] = "aborted"]
            /\ aborted' = TRUE
    /\ UNCHANGED <<sm, mutex, call, serial, last, init, stack, ctor, ncalls,
                   writes>>

\* The offset with the two indices exchanged, table[event][current_state].
TableOffset_swapped(max_event, current_state, event) == event * max_event + current_state

\* &(table[current_state][event]) for table a pointer to rows of max_event
\* entries: the offset into the flat table.
TableOffset(max_event, current_state, event) == current_state * max_event + event

\* The entry of the flat table tbl at an offset.
TableEntry(tbl, offset) == tbl[offset + 1]

\* What transition_function(current_state, event, data, &transition)
\* returns and stores.
transition_function(fn, current_state, event) ==
    fn[TableOffset(MAX_EVENT, current_state, event) + 1]

\* if (SM_USING_TRANSITION_TABLE(sm)) ... else ret = transition_function(...)
event_resolve(t) ==
    /\ ~aborted
    /\ pc[t] = "resolve"
    /\ \/ /\ sm.using_table
          /\ loc' = [loc EXCEPT ![t].transition =
                        TableEntry(sm.table, TableOffset(loc[t].max_event,
                                       loc[t].current_state, call[t].event))]
          /\ UNCHANGED log
       \/ /\ ~sm.using_table
          /\ LET r == transition_function(sm.function, loc[t].current_state,
                                          call[t].event) IN
             /\ loc' = [loc EXCEPT ![t].ret = r.ret, ![t].transition = r.transition]
             /\ log' = [log EXCEPT ![t] = Append(@,
                        Ev("transition_function", loc[t].current_state,
                           call[t].event, r.ret))]
    /\ pc' = [pc EXCEPT ![t] = "apply"]
    /\ UNCHANGED <<sm, mutex, call, serial, last, init, stack, ctor, ncalls,
                   aborted, writes>>

\* The operands the other way round, IS_TRANSITION(transition) first: the
\* pointer is read whatever ret is.
ReadsTransition_first(ret) == TRUE

\* Whether `is_sm_success(ret) && IS_TRANSITION(transition)` evaluates its
\* second operand, that is, reads through the pointer `transition`.
ReadsTransition(ret) == is_sm_success(ret)

\* The condition without its test of ret.
IsStateChange_unchecked(ret, transition) == IS_TRANSITION(transition)

\* if (is_sm_success(ret) && IS_TRANSITION(transition))
IsStateChange(ret, transition) == is_sm_success(ret) /\ IS_TRANSITION(transition)

\* The state change itself, the only write to the machine.
event_apply(t) ==
    /\ ~aborted
    /\ pc[t] = "apply"
    /\ LET reads == IF ReadsTransition(loc[t].ret)
                    THEN << Ev("deref", IF loc[t].transition.valid THEN 1 ELSE 0, 0, 0) >>
                    ELSE << >>
       IN IF IsStateChange(loc[t].ret, loc[t].transition)
          THEN /\ loc' = [loc EXCEPT ![t].previous_state = loc[t].current_state,
                                     ![t].current_state = loc[t].transition.next_state]
               /\ sm' = [sm EXCEPT !.current_state = loc[t].transition.next_state]
               /\ log' = [log EXCEPT ![t] = @ \o reads \o
                            << Ev("write", loc[t].transition.next_state, Holds(t), 0) >>]
               /\ writes' = writes + 1
          ELSE /\ log' = [log EXCEPT ![t] = @ \o reads]
               /\ UNCHANGED <<sm, loc, writes>>
    /\ pc' = [pc EXCEPT ![t] = "check"]
    /\ UNCHANGED <<mutex, call, serial, last, init, stack, ctor, ncalls, aborted>>

\* assert(current_state < max_state);
\* assert(SM_CURRENT_STATE(sm) == current_state);
event_check(t) ==
    /\ ~aborted
    /\ pc[t] = "check"
    /\ IF loc[t].current_state < loc[t].max_state
          /\ sm.current_state = loc[t].current_state
       THEN /\ pc' = [pc EXCEPT ![t] = "give"]
            /\ UNCHANGED aborted
       ELSE /\ pc' = [pc EXCEPT ![t] = "aborted"]
            /\ aborted' = TRUE
    /\ UNCHANGED <<sm, mutex, call, loc, log, serial, last, init, stack,
                   ctor, ncalls, writes>>

\* The function without its delayed return.
ReturnsAfterGive_never(ret) == FALSE

\* if_sm_failure (ret) return ret;
ReturnsAfterGive(ret) == is_sm_failure(ret)

\* lock_give(sm), the end of the critical section, and the delayed handling
\* of the transition function's failure.
event_give(t) ==
    /\ ~aborted
    /\ pc[t] = "give"
    /\ lock_give(t)
    /\ pc' = [pc EXCEPT ![t] =
                IF ReturnsAfterGive(loc[t].ret) THEN "returned" ELSE "callback"]
    /\ UNCHANGED <<sm, call, loc, serial, last, init, stack, ctor, ncalls,
                   aborted, writes>>

\* The callback called with the machine's state read again at the call.
CallbackCalls_reread(event, l) ==
    IF IS_TRANSITION(l.transition)
    THEN IF l.transition.on_enter # NULL
         THEN << Ev("on_enter", event, sm.current_state, l.previous_state) >>
         ELSE << >>
    ELSE IF l.transition.on_undefined_transition # NULL
         THEN << Ev("on_undefined_transition", event, sm.current_state, 0) >>
         ELSE << >>

\* The call of the transition's callback, if it has one, with the
\* arguments the code passes.
CallbackCalls(event, l) ==
    IF IS_TRANSITION(l.transition)
    THEN IF l.transition.on_enter # NULL
         THEN << Ev("on_enter", event, l.current_state, l.previous_state) >>
         ELSE << >>
    ELSE IF l.transition.on_undefined_transition # NULL
         THEN << Ev("on_undefined_transition", event, l.current_state, 0) >>
         ELSE << >>

\* A cleanup call made whatever the machine's strategy, with whatever the
\* implementation union holds in the cleanup's place.
CallsCleanup_any_strategy(m) == TRUE

\* if (!SM_USING_TRANSITION_TABLE(sm)) { ... if (cleanup != NULL) ... }
CallsCleanup(m) == ~m.using_table /\ m.cleanup # NULL

\* cleanup(data, transition) called and its status dropped.
AfterCleanup_dropped(ret, st) == ret

\* ret = cleanup(data, transition): the status the call ends with.
AfterCleanup(ret, st) == st

\* What follows the critical section when the lookup succeeded, all of it
\* local to the calling thread: the callback, then
\* `ret = cleanup(data, transition)`, then `return ret`.
event_callback(t) ==
    /\ ~aborted
    /\ pc[t] = "callback"
    /\ IF CallsCleanup(sm)
       THEN \E st \in CleanupStatuses :
               /\ loc' = [loc EXCEPT ![t].ret = AfterCleanup(loc[t].ret, st)]
               /\ log' = [log EXCEPT ![t] = @ \o CallbackCalls(call[t].event, loc[t])
                                              \o << Ev("cleanup", st, 0, 0) >>]
       ELSE /\ log' = [log EXCEPT ![t] = @ \o CallbackCalls(call[t].event, loc[t])]
            /\ UNCHANGED loc
    /\ pc' = [pc EXCEPT ![t] = "returned"]
    /\ UNCHANGED <<sm, mutex, call, serial, last, init, stack, ctor, ncalls,
                   aborted, writes>>

Next ==
    \E t \in Threads :
        \/ state_machine_event_call(t)
        \/ state_machine_current_state_call(t)
        \/ lock_take(t)
        \/ current_state_read(t)
        \/ current_state_give(t)
        \/ event_snapshot(t)
        \/ event_resolve(t)
        \/ event_apply(t)
        \/ event_check(t)
        \/ event_give(t)
        \/ event_callback(t)

Spec == Init /\ [][Next]_vars

(* ---------------------------------------------------------------- *)
(* Vocabulary of the properties                                     *)
(* ---------------------------------------------------------------- *)

\* The positions between the taking of the lock and its release.
CriticalSection == {"snapshot", "resolve", "apply", "check", "give", "read", "read_give"}

HasOp(l, op) == \E i \in 1..Len(l) : l[i].op = op

Count(l, op) == Cardinality({i \in 1..Len(l) : l[i].op = op})

\* The entry table[s][e] of a table of MAX_EVENT columns stored row by row.
Entry2D(tbl, s, e) == tbl[(s * MAX_EVENT) + e + 1]

\* Thread t is in, or has returned from, a dispatch that got past lock_take().
Dispatching(t) == call[t].op = "event" /\ call[t].entered

\* The try_take() of thread t's call found the lock held by another thread.
TryFailed(t) ==
    /\ Len(log[t]) >= 1
    /\ log[t][1].op = "try_take"
    /\ log[t][1].a # NoThread

\* The transition function has been called in thread t's dispatch and
\* returned st.
Resolved(t, st) ==
    \E i \in 1..Len(log[t]) : log[t][i].op = "transition_function" /\ log[t][i].c = st

ResolverFailed(t) == \E st \in 1..MaxStatus : Resolved(t, st)

CallbackOps == {"on_enter", "on_undefined_transition", "cleanup"}

(* ---------------------------------------------------------------- *)
(* C1                                                               *)
(* ---------------------------------------------------------------- *)

\* What a table machine's state must be once a dispatch of e that found it
\* in state s has changed it.
TableOutcome(s, e) ==
    IF Entry2D(sm.table, s, e).is_transition
    THEN Entry2D(sm.table, s, e).next_state
    ELSE s

\* C1: on a table machine, a dispatch of event e that took the lock in
\* state s leaves the machine in table[s][e].next_state if that entry is a
\* transition; if it is not, it leaves the machine in s, writes nothing,
\* and calls the entry's on_undefined_transition exactly if it has one.
\* The machine's state is compared when the dispatch is about to release
\* the lock, and when it has returned and no dispatch took the lock since.
C1_TableDispatch ==
    \A t \in Threads :
        (sm.using_table /\ Dispatching(t)) =>
            LET s == call[t].s0
                e == call[t].event
                entry == Entry2D(sm.table, s, e)
            IN /\ (pc[t] = "give" => sm.current_state = TableOutcome(s, e))
               /\ (pc[t] = "returned" =>
                     /\ loc[t].current_state = TableOutcome(s, e)
                     /\ (last = t => sm.current_state = TableOutcome(s, e))
                     /\ (entry.is_transition
                            => Count(log[t], "write") = 1
                               /\ ~HasOp(log[t], "on_undefined_transition"))
                     /\ (~entry.is_transition
                            => /\ ~HasOp(log[t], "write")
                               /\ ~HasOp(log[t], "on_enter")
                               /\ Count(log[t], "on_undefined_transition")
                                    = (IF entry.on_undefined_transition # NULL
                                       THEN 1 ELSE 0)))

\* Two dispatches on a table machine have returned, one that followed a
\* transition to another state and one that found no transition and called
\* the handler.
C1_Witness ==
    \E t, u \in Threads :
        /\ sm.using_table
        /\ pc[t] = "returned" /\ Dispatching(t)
        /\ pc[u] = "returned" /\ Dispatching(u)
        /\ Entry2D(sm.table, call[t].s0, call[t].event).is_transition
        /\ Entry2D(sm.table, call[t].s0, call[t].event).next_state # call[t].s0
        /\ HasOp(log[t], "write")
        /\ ~Entry2D(sm.table, call[u].s0, call[u].event).is_transition
        /\ HasOp(log[u], "on_undefined_transition")
        /\ last = u
        /\ sm.current_state = call[u].s0

(* ---------------------------------------------------------------- *)
(* C2                                                               *)
(* ---------------------------------------------------------------- *)

\* C2: in a dispatch, with either strategy, the machine's current_state is
\* written exactly if the lookup returned success and its result is a
\* transition, and then once, with that transition's next_state; otherwise
\* the machine is in the state the dispatch found it in.  Checked from the
\* write to the release of the lock, and after the return as long as no
\* other dispatch took the lock.
C2_WriteIffTransition ==
    \A t \in Threads :
        (Dispatching(t) /\ pc[t] \in {"check", "give", "callback", "returned"}) =>
            LET ok == is_sm_success(IF sm.using_table THEN STATE_MACHINE_SUCCESS
                                    ELSE CHOOSE st \in 0..MaxStatus : Resolved(t, st))
                       /\ loc[t].transition.is_transition
                mine == pc[t] \in {"check", "give"} \/ last = t
            IN /\ Count(log[t], "write") = (IF ok THEN 1 ELSE 0)
               /\ (ok => /\ \E i \in 1..Len(log[t]) :
                               /\ log[t][i].op = "write"
                               /\ log[t][i].a = loc[t].transition.next_state
                         /\ (mine => sm.current_state = loc[t].transition.next_state))
               /\ (~ok /\ mine => sm.current_state = call[t].s0)

\* A dispatch on a function machine whose transition function failed after
\* storing a transition to another state is about to release the lock.
C2_Witness ==
    \E t \in Threads :
        /\ Dispatching(t)
        /\ pc[t] = "give"
        /\ ResolverFailed(t)
        /\ loc[t].transition.valid
        /\ loc[t].transition.is_transition
        /\ loc[t].transition.next_state # call[t].s0

(* ---------------------------------------------------------------- *)
(* C3                                                               *)
(* ---------------------------------------------------------------- *)

\* C3: current_state < max_state in every reachable state of the machine,
\* the state right after a transition's next_state is written included.
C3_CurrentStateInRange == sm.current_state < sm.max_state

(* ---------------------------------------------------------------- *)
(* C4                                                               *)
(* ---------------------------------------------------------------- *)

\* C4: a nonblocking dispatch whose try_take() found the lock held by
\* another thread has returned STATE_MACHINE_WOULD_BLOCK and has done
\* nothing but that try_take(): it did not get into the critical section,
\* read or wrote no state, and called neither the transition function, a
\* callback, the cleanup nor give().
C4_WouldBlock ==
    \A t \in Threads :
        (call[t].op = "event" /\ TryFailed(t)) =>
            /\ FlagSet(call[t].flags, STATE_MACHINE_NONBLOCK)
            /\ pc[t] = "returned"
            /\ loc[t].ret = STATE_MACHINE_WOULD_BLOCK
            /\ ~call[t].entered
            /\ Len(log[t]) = 1
            /\ mutex # t

\* A nonblocking dispatch has found the lock held by a thread that is
\* inside a dispatch's critical section.
C4_Witness ==
    \E t, u \in Threads :
        /\ call[t].op = "event" /\ TryFailed(t)
        /\ pc[t] = "returned"
        /\ mutex = u /\ u # t
        /\ call[u].op = "event" /\ pc[u] \in CriticalSection

(* ---------------------------------------------------------------- *)
(* C5                                                               *)
(* ---------------------------------------------------------------- *)

\* C5: once the transition function of a dispatch has returned a nonzero
\* status, the dispatch does not read the transition pointer, writes no
\* state, calls no callback and no cleanup, and returns that status, after
\* it released the lock.
C5_ResolverFailure ==
    \A t \in Threads : \A st \in 1..MaxStatus :
        (Dispatching(t) /\ Resolved(t, st)) =>
            /\ ~HasOp(log[t], "deref")
            /\ ~HasOp(log[t], "write")
            /\ \A op \in CallbackOps : ~HasOp(log[t], op)
            /\ pc[t] \in {"apply", "check", "give", "returned"}
            /\ loc[t].ret = st
            /\ (pc[t] = "returned" =>
                  /\ mutex # t
                  /\ (LockingSupplied(sm) => Count(log[t], "give") = 1))

\* A dispatch has returned the status of a transition function that failed
\* without storing a transition, on a machine with a lock, a cleanup and
\* callbacks.
C5_Witness ==
    \E t \in Threads :
        /\ Dispatching(t) /\ ResolverFailed(t)
        /\ pc[t] = "returned"
        /\ ~loc[t].transition.valid
        /\ loc[t].ret = MaxStatus
        /\ LockingSupplied(sm)
        /\ sm.cleanup # NULL

(* ---------------------------------------------------------------- *)
(* C6                                                               *)
(* ---------------------------------------------------------------- *)

\* C6 as it was stated: a returned dispatch has called cleanup exactly once
\* on a function machine that has a cleanup, and never on a table machine.
C6_CleanupEveryDispatch ==
    \A t \in Threads :
        (call[t].op = "event" /\ pc[t] = "returned") =>
            Count(log[t], "cleanup")
                = (IF ~sm.using_table /\ sm.cleanup # NULL THEN 1 ELSE 0)

\* C6: a dispatch calls cleanup at most once; when it has returned it has
\* called cleanup exactly once if the machine uses a transition function
\* with a cleanup, the dispatch took the lock and the transition function
\* returned success (a transition or none), and not at all otherwise:
\* neither after STATE_MACHINE_WOULD_BLOCK, nor after a failed transition
\* function, nor on a table machine.
C6_CleanupOncePerResolved ==
    \A t \in Threads :
        call[t].op = "event" =>
            /\ Count(log[t], "cleanup") <= 1
            /\ (sm.using_table => ~HasOp(log[t], "cleanup"))
            /\ (pc[t] = "returned" =>
                  Count(log[t], "cleanup")
                     = (IF /\ ~sm.using_table
                           /\ sm.cleanup # NULL
                           /\ call[t].entered
                           /\ Resolved(t, STATE_MACHINE_SUCCESS)
                        THEN 1 ELSE 0))

\* Two dispatches on a function machine with a cleanup have returned: one
\* found no transition and called cleanup once, the other's transition
\* function failed and it called no cleanup.
C6_Witness ==
    \E t, u \in Threads :
        /\ ~sm.using_table /\ sm.cleanup # NULL
        /\ pc[t] = "returned" /\ Dispatching(t)
        /\ Resolved(t, STATE_MACHINE_SUCCESS)
        /\ ~loc[t].transition.is_transition
        /\ Count(log[t], "cleanup") = 1
        /\ pc[u] = "returned" /\ Dispatching(u)
        /\ ResolverFailed(u)
        /\ Count(log[u], "cleanup") = 0

(* ---------------------------------------------------------------- *)
(* C7                                                               *)
(* ---------------------------------------------------------------- *)

\* The place of the first entry of log l with operation op, 0 if none.
FirstOp(l, op) ==
    IF HasOp(l, op) THEN CHOOSE i \in 1..Len(l) : l[i].op = op /\ \A j \in 1..(i - 1) : l[j].op # op
    ELSE 0

\* C7: a returned dispatch on a function machine whose transition function
\* succeeded has, if the machine has a cleanup, called it last, after the
\* callback, and returned the status it gave, with the state it wrote left
\* in place whatever that status; without a cleanup it returned
\* STATE_MACHINE_SUCCESS.
C7_CleanupStatus ==
    \A t \in Threads :
        (/\ Dispatching(t) /\ ~sm.using_table /\ pc[t] = "returned"
         /\ Resolved(t, STATE_MACHINE_SUCCESS)) =>
            /\ (sm.cleanup # NULL =>
                  /\ log[t][Len(log[t])].op = "cleanup"
                  /\ loc[t].ret = log[t][Len(log[t])].a
                  /\ \A op \in {"on_enter", "on_undefined_transition", "write", "give"} :
                        FirstOp(log[t], op) < Len(log[t]))
            /\ (sm.cleanup = NULL => loc[t].ret = STATE_MACHINE_SUCCESS)
            /\ (loc[t].transition.is_transition /\ last = t
                   => sm.current_state = loc[t].transition.next_state)

\* A dispatch has returned a cleanup's nonzero status after it moved the
\* machine to another state and called on_enter.
C7_Witness ==
    \E t \in Threads :
        /\ Dispatching(t) /\ ~sm.using_table /\ pc[t] = "returned"
        /\ Resolved(t, STATE_MACHINE_SUCCESS)
        /\ HasOp(log[t], "on_enter")
        /\ HasOp(log[t], "cleanup")
        /\ loc[t].ret = MaxStatus
        /\ last = t
        /\ sm.current_state = loc[t].transition.next_state
        /\ sm.current_state # call[t].s0

(* ---------------------------------------------------------------- *)
(* C8                                                               *)
(* ---------------------------------------------------------------- *)

\* C8: on a machine with a lock, a dispatch that is at its callback and
\* cleanup does not hold the lock, and every callback and cleanup it has
\* called came after its give().
C8_CallbacksUnlocked ==
    \A t \in Threads :
        (LockingSupplied(sm) /\ call[t].op = "event") =>
            /\ (pc[t] = "callback" => mutex # t /\ Count(log[t], "give") = 1)
            /\ \A i \in 1..Len(log[t]) :
                  log[t][i].op \in CallbackOps =>
                     \E j \in 1..(i - 1) : log[t][j].op = "give"

\* A dispatch on a machine with a lock is at its callback, with on_enter
\* and a cleanup to call, while another thread holds the lock.
C8_Witness ==
    \E t, u \in Threads :
        /\ LockingSupplied(sm)
        /\ pc[t] = "callback"
        /\ loc[t].transition.is_transition
        /\ loc[t].transition.on_enter # NULL
        /\ sm.cleanup # NULL /\ ~sm.using_table
        /\ mutex = u /\ u # t

(* ---------------------------------------------------------------- *)
(* C9                                                               *)
(* ---------------------------------------------------------------- *)

\* C9: on a machine with a lock, a thread between lock_take() and
\* lock_give() holds the lock, at most one thread is there, and every read
\* and every write of current_state was made by a thread holding the lock.
C9_MutualExclusion ==
    LockingSupplied(sm) =>
        /\ \A t \in Threads : pc[t] \in CriticalSection => mutex = t
        /\ Cardinality({t \in Threads : pc[t] \in CriticalSection}) <= 1
        /\ \A t \in Threads : \A i \in 1..Len(log[t]) :
              log[t][i].op \in {"read", "write"} => log[t][i].b = 1

\* A dispatch is about to write the state while another thread waits in a
\* blocking lock_take().
C9_Witness ==
    \E t, u \in Threads :
        /\ LockingSupplied(sm)
        /\ pc[t] = "apply" /\ IsStateChange(loc[t].ret, loc[t].transition)
        /\ pc[u] = "lock_take"
        /\ ~FlagSet(call[u].flags, STATE_MACHINE_NONBLOCK)

(* ---------------------------------------------------------------- *)
(* C10                                                              *)
(* ---------------------------------------------------------------- *)

\* C10: on a machine with a lock, whenever no dispatch is between its
\* snapshot and its write, the machine is in the state of the
\* single-threaded machine that was sent the same events in the order in
\* which the dispatches took the lock.
C10_Serializable ==
    LockingSupplied(sm) =>
        ((\A t \in Threads : pc[t] \notin {"snapshot", "resolve", "apply"})
            => sm.current_state = serial)

\* Two threads' dispatches have both changed the state and returned.
C10_Witness ==
    /\ LockingSupplied(sm)
    /\ \E t, u \in Threads :
          /\ t # u
          /\ pc[t] = "returned" /\ Dispatching(t) /\ HasOp(log[t], "write")
          /\ pc[u] = "returned" /\ Dispatching(u) /\ HasOp(log[u], "write")
          /\ ~FlagSet(call[t].flags, STATE_MACHINE_NONBLOCK)
          /\ ~FlagSet(call[u].flags, STATE_MACHINE_NONBLOCK)
          /\ sm.current_state # init

(* ---------------------------------------------------------------- *)
(* Callbacks that send the machine an event                         *)
(* ---------------------------------------------------------------- *)

\* How deep callbacks nest dispatches; the nested dispatches count as calls.
MaxDepth == 1

\* The frame of the dispatch whose callback thread t is running.
Outer(t) == stack[t][Len(stack[t])]

\* Thread t runs a callback of one of its dispatches.
InCallback(t) == stack[t] # << >>

\* The callback of thread t's dispatch, on_enter or
\* on_undefined_transition, is called and calls
\* state_machine_event(sm, event, event_data, flags) on the same machine:
\* the dispatch waits in the callback for the nested one to return.
callback_reenter(t) ==
    /\ ~aborted
    /\ pc[t] = "callback"
    /\ CallbackCalls(call[t].event, loc[t]) # << >>
    /\ Len(stack[t]) < MaxDepth
    /\ ncalls < MaxCalls
    /\ stack' = [stack EXCEPT ![t] = Append(@,
                    [call |-> call[t], loc |-> loc[t],
                     log |-> log[t] \o CallbackCalls(call[t].event, loc[t])])]
    /\ \E event \in 0..(MAX_EVENT - 1), flags \in {0, STATE_MACHINE_NONBLOCK} :
          call' = [call EXCEPT ![t] = [NoCall EXCEPT !.op = "event",
                                          !.event = event, !.flags = flags]]
    /\ pc' = [pc EXCEPT ![t] = "lock_take"]
    /\ loc' = [loc EXCEPT ![t] = NoLocals]
    /\ log' = [log EXCEPT ![t] = << >>]
    /\ ncalls' = ncalls + 1
    /\ UNCHANGED <<sm, mutex, serial, last, init, aborted, ctor, writes>>

\* The nested dispatch has returned into the callback, the callback returns,
\* and the dispatch that called it goes on with
\* `ret = cleanup(data, transition)` and `return ret`.
callback_return(t) ==
    /\ ~aborted
    /\ pc[t] = "returned"
    /\ InCallback(t)
    /\ LET f == Outer(t)
           lg == Append(f.log, Ev("state_machine_event", call[t].event,
                                  call[t].flags, loc[t].ret))
       IN /\ call' = [call EXCEPT ![t] = f.call]
          /\ IF CallsCleanup(sm)
             THEN \E st \in CleanupStatuses :
                     /\ loc' = [loc EXCEPT ![t] =
                                  [f.loc EXCEPT !.ret = AfterCleanup(f.loc.ret, st)]]
                     /\ log' = [log EXCEPT ![t] = Append(lg, Ev("cleanup", st, 0, 0))]
             ELSE /\ loc' = [loc EXCEPT ![t] = f.loc]
                  /\ log' = [log EXCEPT ![t] = lg]
    /\ stack' = [stack EXCEPT ![t] = SubSeq(@, 1, Len(@) - 1)]
    /\ pc' = [pc EXCEPT ![t] = "returned"]
    /\ UNCHANGED <<sm, mutex, serial, last, init, ncalls, aborted, ctor,
                   writes>>

\* A machine with a lock, and callbacks that may send it events.
ReentrantInit == Init /\ LockingSupplied(sm)

ReentrantNext ==
    \/ Next
    \/ \E t \in Threads : callback_reenter(t)
    \/ \E t \in Threads : callback_return(t)

ReentrantSpec == ReentrantInit /\ [][ReentrantNext]_vars

\* Thread t is inside a call, or inside a callback of one.
Busy(t) == pc[t] \notin {"idle", "returned"} \/ InCallback(t)

(* ---------------------------------------------------------------- *)
(* C11                                                              *)
(* ---------------------------------------------------------------- *)

\* C11: a dispatch that a callback makes on the same machine, which has a
\* non-reentrant lock, never waits for a lock its own thread holds: the
\* thread holds the lock nowhere between the callback's call and the
\* nested dispatch's lock_take(), so while the process lives and a call is
\* under way some step can be taken; as long as no other thread's
\* dispatch has taken the lock since, the nested dispatch finds the machine
\* in the state the outer dispatch left, and it works on the state it
\* found; and when the outer dispatch has returned after a nested one, its
\* thread does not hold the lock.
C11_NestedDispatch ==
    /\ \A t \in Threads :
          /\ (InCallback(t) /\ pc[t] = "lock_take") =>
                /\ mutex # t
                /\ (last = t => sm.current_state = Outer(t).loc.current_state)
          /\ (InCallback(t) /\ pc[t] \in {"resolve", "apply"}) =>
                /\ mutex = t
                /\ loc[t].current_state = call[t].s0
          /\ (InCallback(t) /\ pc[t] = "returned") => mutex # t
          /\ HasOp(log[t], "state_machine_event") => mutex # t
    /\ (~aborted /\ \E t \in Threads : Busy(t)) => ENABLED ReentrantNext

\* An on_enter callback's blocking dispatch has changed the state again
\* and returned, and the dispatch that called the callback has returned.
C11_Witness ==
    \E t \in Threads :
        /\ pc[t] = "returned" /\ ~InCallback(t)
        /\ loc[t].ret = STATE_MACHINE_SUCCESS
        /\ \E i, j \in 1..Len(log[t]) :
              /\ i < j
              /\ log[t][i].op = "on_enter"
              /\ log[t][j].op = "state_machine_event"
              /\ log[t][j].b = 0
              /\ log[t][j].c = STATE_MACHINE_SUCCESS
              /\ sm.current_state # log[t][i].b

(* ---------------------------------------------------------------- *)
(* Construction                                                     *)
(* ---------------------------------------------------------------- *)

\* Every State_machine_locking there is, by which of its three functions
\* are null pointers.
LockingPolicies ==
    {[try_take |-> a, take |-> b, give |-> c] :
        a \in {NULL, "try_take"}, b \in {NULL, "take"}, c \in {NULL, "give"}}

\* The State_machine record before it is initialised: memory whose lock
\* member holds whatever was there.  No other member is read before it is
\* written.
Uninitialised(lock) ==
    [max_state |-> 0, max_event |-> 0, current_state |-> 0,
     lock |-> lock, using_table |-> FALSE, table |-> << >>,
     function |-> << >>, cleanup |-> NULL, data |-> NULL]

\* The four assertions of state_machine_init_common() on a record m that is
\* not a null pointer; the last one reads m's own lock member.
init_common_asserts(m, max_state, max_event, init_state) ==
    /\ max_state > 0
    /\ max_event > 0
    /\ init_state < max_state
    /\ LOCKING_DEFINITION_CONSISTENT(m.lock)

\* The argument values the initialising calls are made with: bounds that
\* are zero or those of the example, an init_state that may be max_state,
\* every locking policy, a null or a real table or transition function.
CtorArgs ==
    [op : {"init_table", "init_function"},
     max_state : {0, MAX_STATE}, max_event : {0, MAX_EVENT},
     init_state : 0..MAX_STATE, locking : LockingPolicies,
     transition : {<< >>, transition_table, failing_function},
     cleanup : {NULL, "cleanup"}, data : {NULL, DATA}, accepted : {TRUE}]

\* state_machine_init_table(sm, max_state, max_event, init_state, locking,
\*     transition_table, data), by the thread that sets the machine up.
state_machine_init_table_with(a) ==
    /\ ~aborted
    /\ ctor.op = "none"
    /\ IF /\ a.transition # << >>
          /\ init_common_asserts(sm, a.max_state, a.max_event, a.init_state)
       THEN /\ sm' = state_machine_init_table(a.max_state, a.max_event,
                        a.init_state, a.locking, a.transition, a.data)
            /\ ctor' = a
            /\ init' = a.init_state
            /\ serial' = a.init_state
            /\ UNCHANGED <<pc, aborted>>
       ELSE /\ ctor' = [a EXCEPT !.accepted = FALSE]
            /\ pc' = [pc EXCEPT ![1] = "aborted"]
            /\ aborted' = TRUE
            /\ UNCHANGED <<sm, init, serial>>
    /\ UNCHANGED <<mutex, call, loc, log, last, ncalls, stack, writes>>

\* The call made with any of the argument values.
state_machine_init_table_call ==
    \E a \in CtorArgs :
        /\ a.op = "init_table"
        /\ a.transition \in {<< >>, transition_table}
        /\ a.cleanup = NULL
        /\ state_machine_init_table_with(a)

\* state_machine_init_function(sm, max_state, max_event, init_state,
\*     locking, transition, cleanup, data)
state_machine_init_function_call ==
    /\ ~aborted
    /\ ctor.op = "none"
    /\ \E a \in CtorArgs :
          /\ a.op = "init_function"
          /\ a.transition \in {<< >>, failing_function}
          /\ IF /\ a.transition # << >>
                /\ init_common_asserts(sm, a.max_state, a.max_event, a.init_state)
             THEN /\ sm' = state_machine_init_function(a.max_state, a.max_event,
                              a.init_state, a.locking, a.transition, a.cleanup,
                              a.data)
                  /\ ctor' = a
                  /\ init' = a.init_state
                  /\ serial' = a.init_state
                  /\ UNCHANGED <<pc, aborted>>
             ELSE /\ ctor' = [a EXCEPT !.accepted = FALSE]
                  /\ pc' = [pc EXCEPT ![1] = "aborted"]
                  /\ aborted' = TRUE
                  /\ UNCHANGED <<sm, init, serial>>
    /\ UNCHANGED <<mutex, call, loc, log, last, ncalls, stack, writes>>

\* Memory that holds anything, and no machine in it yet.
ConstructInit ==
    /\ sm \in {Uninitialised(l) : l \in LockingPolicies}
    /\ mutex = NoThread
    /\ pc = [t \in Threads |-> "idle"]
    /\ call = [t \in Threads |-> NoCall]
    /\ loc = [t \in Threads |-> NoLocals]
    /\ log = [t \in Threads |-> << >>]
    /\ serial = 0
    /\ last = NoThread
    /\ init = 0
    /\ ncalls = 0
    /\ aborted = FALSE
    /\ stack = NoFrames
    /\ ctor = NoCtor
    /\ writes = 0

\* The machine is initialised, then used by the thread that initialised it.
ConstructNext ==
    \/ state_machine_init_table_call
    \/ state_machine_init_function_call
    \/ (ctor.op # "none" /\ Next /\ \A t \in Threads \ {1} : pc'[t] = "idle")

ConstructSpec == ConstructInit /\ [][ConstructNext]_vars

\* The assertions of an initialising call on its arguments alone.
ArgsValid(a) ==
    /\ a.max_state > 0
    /\ a.max_event > 0
    /\ a.init_state < a.max_state
    /\ a.transition # << >>

(* ---------------------------------------------------------------- *)
(* C12                                                              *)
(* ---------------------------------------------------------------- *)

\* C12: an initialising call whose other arguments are valid is rejected
\* (the process aborts in it) if its locking policy has some but not all
\* of try_take, take and give, and is accepted if it has all or none,
\* whatever the machine record held before.
C12_PolicyValidated ==
    (ctor.op # "none" /\ ArgsValid(ctor)) =>
        (ctor.accepted <=> LOCKING_DEFINITION_CONSISTENT(ctor.locking))

(* ---------------------------------------------------------------- *)
(* C13                                                              *)
(* ---------------------------------------------------------------- *)

\* Thread t's state_machine_current_state() has returned STATE_MACHINE_SUCCESS.
GotState(t) ==
    /\ pc[t] = "returned"
    /\ call[t].op = "current_state"
    /\ loc[t].ret = STATE_MACHINE_SUCCESS

\* The read of the machine's state that thread t's call has made.
ReadOf(t) == log[t][FirstOp(log[t], "read")]

\* Thread t is inside state_machine_current_state().
Getting(t) == call[t].op = "current_state" /\ pc[t] \in {"lock_take", "read", "read_give"}

\* C13: no step of state_machine_current_state() changes any member of the
\* machine; the state a successful call stores is the machine's
\* current_state as long as no dispatch has written it since, and two
\* successful calls with no write between them store the same state.
C13_GetIsPure ==
    /\ [](\A t, u \in Threads :
            (GotState(t) /\ GotState(u)) =>
                /\ loc[t].state = ReadOf(t).a
                /\ (ReadOf(t).c = writes => loc[t].state = sm.current_state)
                /\ (ReadOf(t).c = ReadOf(u).c => loc[t].state = loc[u].state))
    /\ [][(\E t \in Threads : Getting(t) /\ pc'[t] # pc[t]) => sm' = sm]_vars

\* Two threads' calls have both returned the machine's state, and nothing
\* has written it since either of them read it.
C13_Witness ==
    \E t, u \in Threads :
        /\ t # u
        /\ GotState(t) /\ GotState(u)
        /\ ReadOf(t).c = writes /\ ReadOf(u).c = writes

(* ---------------------------------------------------------------- *)
(* C14                                                              *)
(* ---------------------------------------------------------------- *)

\* C14: a nonblocking state_machine_current_state() on a machine with a
\* lock whose try_take() fails has returned STATE_MACHINE_WOULD_BLOCK
\* having called nothing but try_take(): it has not read the machine's
\* state, has not written its output and has not called give().  One whose
\* try_take() succeeds, once returned, has returned STATE_MACHINE_SUCCESS,
\* has read the state while holding the lock, has stored what it read, the
\* state the machine was in, in its output, and has given the lock back.
C14_NonblockingGet ==
    \A t \in Threads :
        (/\ call[t].op = "current_state"
         /\ FlagSet(call[t].flags, STATE_MACHINE_NONBLOCK)
         /\ HasOp(log[t], "try_take")) =>
            IF TryFailed(t)
            THEN /\ pc[t] = "returned"
                 /\ loc[t].ret = STATE_MACHINE_WOULD_BLOCK
                 /\ ~call[t].entered
                 /\ loc[t].state = -1
                 /\ Len(log[t]) = 1
                 /\ mutex # t
            ELSE pc[t] = "returned" =>
                 /\ loc[t].ret = STATE_MACHINE_SUCCESS
                 /\ Len(log[t]) = 3
                 /\ log[t][2] = Ev("read", call[t].s0, 1, log[t][2].c)
                 /\ loc[t].state = call[t].s0
                 /\ (log[t][2].c = writes => loc[t].state = sm.current_state)
                 /\ log[t][3] = Ev("give", t, 0, 0)
                 /\ mutex # t

\* A nonblocking state_machine_current_state() has returned
\* STATE_MACHINE_WOULD_BLOCK while another thread's dispatch holds the lock.
C14_Witness ==
    \E t, u \in Threads :
        /\ call[t].op = "current_state"
        /\ FlagSet(call[t].flags, STATE_MACHINE_NONBLOCK)
        /\ TryFailed(t)
        /\ pc[t] = "returned"
        /\ mutex = u /\ u # t /\ call[u].op = "event"

\* A nonblocking state_machine_current_state() has taken the lock and
\* returned the state a dispatch had left.
C14_WitnessSuccess ==
    \E t \in Threads :
        /\ call[t].op = "current_state"
        /\ FlagSet(call[t].flags, STATE_MACHINE_NONBLOCK)
        /\ HasOp(log[t], "try_take") /\ ~TryFailed(t)
        /\ pc[t] = "returned"
        /\ loc[t].state # init

(* ---------------------------------------------------------------- *)
(* The example program                                              *)
(* ---------------------------------------------------------------- *)

\* The calls main() makes on the machine in one run of its inner loop.
MainCalls == << "current_state", "event", "current_state" >>

\* How many calls main() makes on the machine: for each event, MAX_STATE
\* runs of the inner loop.
MainLength == MAX_EVENT * MAX_STATE * Len(MainCalls)

\* The event main() is sending in the run of its n-th call, n from 0.
MainEvent(n) == EVENT_INC + ((n \div Len(MainCalls)) \div MAX_STATE)

\* state_machine_init_table(&sm, MAX_STATE, MAX_EVENT, STATE_0, locking,
\*     transition_table, NULL) with locking = STATE_MACHINE_NO_LOCKING, on
\* the record `State_machine sm` that main() declares and does not
\* initialise.
main_init ==
    state_machine_init_table_with(
        [op |-> "init_table", max_state |-> MAX_STATE, max_event |-> MAX_EVENT,
         init_state |-> STATE_0, locking |-> STATE_MACHINE_NO_LOCKING,
         transition |-> transition_table, cleanup |-> NULL, data |-> NULL,
         accepted |-> TRUE])

\* The next call of main()'s loops, all of them blocking; main() exits
\* when a call fails.
main_call ==
    /\ ~aborted
    /\ ctor.op # "none"
    /\ pc[1] \in {"idle", "returned"}
    /\ ncalls < MainLength
    /\ is_sm_success(loc[1].ret)
    /\ call' = [call EXCEPT ![1] =
                  [NoCall EXCEPT !.op = MainCalls[(ncalls % Len(MainCalls)) + 1],
                                 !.event = IF MainCalls[(ncalls % Len(MainCalls)) + 1] = "event"
                                           THEN MainEvent(ncalls) ELSE 0,
                                 !.flags = 0]]
    /\ pc' = [pc EXCEPT ![1] = "lock_take"]
    /\ loc' = [loc EXCEPT ![1] = NoLocals]
    /\ log' = [log EXCEPT ![1] = << >>]
    /\ ncalls' = ncalls + 1
    /\ UNCHANGED <<sm, mutex, serial, last, init, stack, ctor, aborted, writes>>

\* main(), the only thread of the example program.
MainNext ==
    \/ main_init
    \/ main_call
    \/ lock_take(1)
    \/ current_state_read(1)
    \/ current_state_give(1)
    \/ event_snapshot(1)
    \/ event_resolve(1)
    \/ event_apply(1)
    \/ event_check(1)
    \/ event_give(1)
    \/ event_callback(1)

MainSpec == ConstructInit /\ [][MainNext]_vars

(* ---------------------------------------------------------------- *)
(* C15                                                              *)
(* ---------------------------------------------------------------- *)

\* The states the scenario is to visit, one per event sent.
C15_Visited == << STATE_1, STATE_2, STATE_2, STATE_1, STATE_0, STATE_0 >>

\* The callback each event of the scenario is to fire.
C15_Fired ==
    << "on_enter", "on_enter", "on_undefined_transition",
       "on_enter", "on_enter", "on_undefined_transition" >>

\* C15: in the example program, which sends the table machine, started in
\* STATE_0 without locking, EVENT_INC three times and then EVENT_DEC three
\* times, every call that has returned has returned STATE_MACHINE_SUCCESS;
\* the i-th dispatch has left the machine in the i-th of the states S1,
\* S2, S2, S1, S0, S0 and has fired exactly one callback, on_enter for the
\* 1st, 2nd, 4th and 5th event and on_undefined for the 3rd and 6th; and
\* the state_machine_current_state() before and after it have returned
\* the state before and after it.
C15_Scenario ==
    (ctor.op # "none" /\ pc[1] = "returned") =>
        LET i == ((ncalls - 1) \div Len(MainCalls)) + 1
            k == ((ncalls - 1) % Len(MainCalls)) + 1
            before == IF i = 1 THEN STATE_0 ELSE C15_Visited[i - 1]
        IN /\ loc[1].ret = STATE_MACHINE_SUCCESS
           /\ call[1].op = MainCalls[k]
           /\ k = 1 => (loc[1].state = before /\ sm.current_state = before)
           /\ k = 2 =>
                /\ call[1].event = (IF i <= MAX_STATE THEN EVENT_INC ELSE EVENT_DEC)
                /\ sm.current_state = C15_Visited[i]
                /\ Count(log[1], C15_Fired[i]) = 1
                /\ \A j \in 1..Len(log[1]) :
                      log[1][j].op \in CallbackOps => log[1][j].op = C15_Fired[i]
           /\ k = 3 => (loc[1].state = C15_Visited[i] /\ sm.current_state = C15_Visited[i])

\* main() has made its last call and the machine is back in STATE_0.
C15_Witness ==
    /\ ncalls = MainLength
    /\ pc[1] = "returned"
    /\ loc[1].state = STATE_0
    /\ writes = 4

(* ---------------------------------------------------------------- *)
(* Events that are not events of the machine                        *)
(* ---------------------------------------------------------------- *)

\* state_machine_event(sm, event, event_data, flags) is called with any
\* event, MAX_EVENT, which is none of the machine's, included.
state_machine_event_call_any(t) ==
    /\ MayCall(t)
    /\ \E event \in 0..MAX_EVENT, flags \in {0, STATE_MACHINE_NONBLOCK} :
          call' = [call EXCEPT ![t] = [NoCall EXCEPT !.op = "event",
                                          !.event = event, !.flags = flags]]
    /\ pc' = [pc EXCEPT ![t] = "lock_take"]
    /\ loc' = [loc EXCEPT ![t] = NoLocals]
    /\ log' = [log EXCEPT ![t] = << >>]
    /\ ncalls' = ncalls + 1
    /\ UNCHANGED <<sm, mutex, serial, last, init, stack, ctor, aborted, writes>>

\* The machines of the example's bounds built on the example's table and
\* on the transition function, the latter with a cleanup.
AnyEventInit ==
    /\ Init
    /\ sm.using_table => sm.table = transition_table
    /\ ~sm.using_table => sm.cleanup # NULL

\* Threads that send the machine events of any number.
AnyEventNext ==
    \E t \in Threads :
        \/ state_machine_event_call_any(t)
        \/ lock_take(t)
        \/ event_snapshot(t)
        \/ event_resolve(t)
        \/ event_apply(t)
        \/ event_check(t)
        \/ event_give(t)
        \/ event_callback(t)

AnyEventSpec == AnyEventInit /\ [][AnyEventNext]_vars

\* Thread t's call is a dispatch of an event that is not one of the machine's.
BadEvent(t) == call[t].op = "event" /\ call[t].event >= sm.max_event

(* ---------------------------------------------------------------- *)
(* C16                                                              *)
(* ---------------------------------------------------------------- *)

\* C16 as claimed: no dispatch of an event >= max_event returns.
C16_BadEventNeverReturns ==
    \A t \in Threads : BadEvent(t) => pc[t] # "returned"

\* C16: a dispatch of an event >= max_event, on a table or a function
\* machine, blocking or not, never gets to the table or the transition
\* function, never writes the machine's state and never calls a callback
\* or the cleanup; once it is past lock_take() the process aborts in it;
\* and it returns only when it is nonblocking and its try_take() has
\* failed, with STATE_MACHINE_WOULD_BLOCK and before the event is looked at.
C16_BadEventFatal ==
    \A t \in Threads :
        BadEvent(t) =>
            /\ pc[t] \in {"lock_take", "snapshot", "aborted", "returned"}
            /\ \A i \in 1..Len(log[t]) :
                  log[t][i].op \in {"try_take", "take", "read"}
            /\ call[t].entered => sm.current_state = call[t].s0
            /\ pc[t] = "aborted" => (call[t].entered /\ aborted)
            /\ pc[t] = "returned" =>
                  /\ FlagSet(call[t].flags, STATE_MACHINE_NONBLOCK)
                  /\ TryFailed(t)
                  /\ ~call[t].entered
                  /\ loc[t].ret = STATE_MACHINE_WOULD_BLOCK

\* The process has aborted in a nonblocking dispatch of an event that is
\* not the machine's, on a machine with a lock that the dispatch took.
C16_Witness ==
    \E t \in Threads :
        /\ BadEvent(t)
        /\ FlagSet(call[t].flags, STATE_MACHINE_NONBLOCK)
        /\ LockingSupplied(sm)
        /\ pc[t] = "aborted"
        /\ mutex = t

(* ---------------------------------------------------------------- *)
(* C17                                                              *)
(* ---------------------------------------------------------------- *)

\* Thread t's dispatch has returned STATE_MACHINE_WOULD_BLOCK.
ReturnedWouldBlock(t) ==
    /\ call[t].op = "event"
    /\ pc[t] = "returned"
    /\ loc[t].ret = STATE_MACHINE_WOULD_BLOCK

\* Thread t's dispatch was nonblocking, its try_take() failed, and it has
\* called nothing else and has not touched the machine.
BlockedOnly(t) ==
    /\ FlagSet(call[t].flags, STATE_MACHINE_NONBLOCK)
    /\ TryFailed(t)
    /\ ~call[t].entered
    /\ Len(log[t]) = 1

\* C17 as claimed: a dispatch that has returned STATE_MACHINE_WOULD_BLOCK
\* was nonblocking, its try_take() failed and it has done nothing else.
C17_WouldBlockOnlyFromTry ==
    \A t \in Threads : ReturnedWouldBlock(t) => BlockedOnly(t)

\* C17: a dispatch that has returned the value of STATE_MACHINE_WOULD_BLOCK
\* either was nonblocking with a failed try_take() and has done nothing
\* else, or ran on a function machine, took the lock, and got the value
\* from the transition function or, last, from the cleanup.  So on a table
\* machine the value means that nothing was done, and a blocking dispatch
\* returns it only as the status of the transition function or the cleanup.
C17_WouldBlockSources ==
    \A t \in Threads :
        ReturnedWouldBlock(t) =>
            \/ BlockedOnly(t)
            \/ /\ ~sm.using_table
               /\ call[t].entered
               /\ ~TryFailed(t)
               /\ \/ /\ Resolved(t, STATE_MACHINE_WOULD_BLOCK)
                     /\ \A i \in 1..Len(log[t]) : log[t][i].op \notin CallbackOps
                  \/ /\ Resolved(t, STATE_MACHINE_SUCCESS)
                     /\ log[t][Len(log[t])] = Ev("cleanup", STATE_MACHINE_WOULD_BLOCK, 0, 0)

\* A blocking dispatch has returned the value of STATE_MACHINE_WOULD_BLOCK
\* after it changed the state, and another nonblocking one has returned it
\* because its try_take() failed.
C17_Witness ==
    \E t, u \in Threads :
        /\ ReturnedWouldBlock(t)
        /\ ~FlagSet(call[t].flags, STATE_MACHINE_NONBLOCK)
        /\ HasOp(log[t], "write")
        /\ ReturnedWouldBlock(u) /\ BlockedOnly(u)

(* ---------------------------------------------------------------- *)
(* On-enter callbacks that fail                                     *)
(* ---------------------------------------------------------------- *)

\* An on-enter callback that fails with the status st.  On_state_enter is
\* a pointer to a function returning void, so the status has no way back
\* into state_machine_event(): `on_enter(event, current_state,
\* previous_state, event_data, data);` is an expression statement, and ret
\* is assigned again only by the cleanup.  The rest is event_callback(t).
event_callback_failing(t) ==
    /\ ~aborted
    /\ pc[t] = "callback"
    /\ IS_TRANSITION(loc[t].transition)
    /\ loc[t].transition.on_enter # NULL
    /\ \E st \in 1..MaxStatus :
          LET lg == log[t] \o CallbackCalls(call[t].event, loc[t])
                           \o << Ev("on_enter_failed", st, 0, 0) >>
          IN IF CallsCleanup(sm)
             THEN \E cst \in CleanupStatuses :
                     /\ loc' = [loc EXCEPT ![t].ret = AfterCleanup(loc[t].ret, cst)]
                     /\ log' = [log EXCEPT ![t] = Append(lg, Ev("cleanup", cst, 0, 0))]
             ELSE /\ log' = [log EXCEPT ![t] = lg]
                  /\ UNCHANGED loc
    /\ pc' = [pc EXCEPT ![t] = "returned"]
    /\ UNCHANGED <<sm, mutex, call, serial, last, init, stack, ctor, ncalls,
                   aborted, writes>>

FailingCallbackNext ==
    \/ Next
    \/ \E t \in Threads : event_callback_failing(t)

FailingCallbackSpec == Init /\ [][FailingCallbackNext]_vars

(* ---------------------------------------------------------------- *)
(* C18                                                              *)
(* ---------------------------------------------------------------- *)

\* C18: a dispatch whose on-enter callback has failed with a status has,
\* once returned, returned that status.
C18_OnEnterFailureReturned ==
    \A t \in Threads :
        (call[t].op = "event" /\ pc[t] = "returned") =>
            \A i \in 1..Len(log[t]) :
                log[t][i].op = "on_enter_failed" => loc[t].ret = log[t][i].a

(* ---------------------------------------------------------------- *)
(* C19                                                              *)
(* ---------------------------------------------------------------- *)

\* The three assertions of an initialising call on its numeric arguments.
NumericValid(a) ==
    /\ a.max_state > 0
    /\ a.max_event > 0
    /\ a.init_state < a.max_state

\* C19: once an initialising call has returned, the machine's bounds,
\* strategy (table or transition function and cleanup), locking policy and
\* data are the call's arguments, and its state is init_state until a
\* dispatch writes it, so that a state_machine_current_state() that read
\* the state before any write has returned init_state.  A call with
\* max_state = 0, max_event = 0 or init_state >= max_state has not
\* returned: the process has aborted in it, the record is as it was and no
\* call has been made on it.
C19_Initialised ==
    ctor.op # "none" =>
        /\ ctor.accepted =>
              /\ NumericValid(ctor)
              /\ sm.max_state = ctor.max_state
              /\ sm.max_event = ctor.max_event
              /\ sm.lock = ctor.locking
              /\ sm.data = ctor.data
              /\ sm.using_table = (ctor.op = "init_table")
              /\ sm.using_table => sm.table = ctor.transition
              /\ ~sm.using_table =>
                    (sm.function = ctor.transition /\ sm.cleanup = ctor.cleanup)
              /\ writes = 0 => sm.current_state = ctor.init_state
              /\ \A t \in Threads :
                    (GotState(t) /\ ReadOf(t).c = 0) => loc[t].state = ctor.init_state
        /\ ~NumericValid(ctor) =>
              /\ ~ctor.accepted
              /\ aborted
              /\ sm \in {Uninitialised(l) : l \in LockingPolicies}
              /\ ncalls = 0

\* A function machine initialised in STATE_2 with a lock and a cleanup,
\* whose state a state_machine_current_state() has returned before any
\* dispatch.
C19_Witness ==
    /\ ctor.op = "init_function"
    /\ ctor.accepted
    /\ ctor.init_state = STATE_2
    /\ ctor.locking = LOCKING
    /\ ctor.cleanup # NULL
    /\ GotState(1)
    /\ last = NoThread
    /\ loc[1].state = STATE_2

\* The process has aborted in an initialising call whose init_state is
\* max_state, made on a record whose lock member was consistent.
C19_WitnessRejected ==
    /\ ctor.op # "none"
    /\ ctor.max_state > 0 /\ ctor.max_event > 0
    /\ ctor.init_state = ctor.max_state
    /\ ctor.transition # << >>
    /\ LOCKING_DEFINITION_CONSISTENT(sm.lock)
    /\ aborted

(* ---------------------------------------------------------------- *)
(* C20                                                              *)
(* ---------------------------------------------------------------- *)

\* Thread t's dispatch on a function machine is past lock_take().
FunctionDispatch(t) == Dispatching(t) /\ ~sm.using_table

\* C20: a dispatch on a function machine that got past lock_take() calls
\* the transition function at most once, and exactly once when it has got
\* past the call; it calls it with the state it read after taking the
\* lock, which is the state the machine was in when it took the lock and
\* is still the machine's state when the call is made and when its result
\* is applied; on a machine with a lock the thread holds the lock from the
\* read to the write, and give() comes after the call and the write.
C20_ResolverInCriticalSection ==
    \A t \in Threads :
        FunctionDispatch(t) =>
            LET l == log[t]
                ri == FirstOp(l, "read")
                fi == FirstOp(l, "transition_function")
                wi == FirstOp(l, "write")
                gi == FirstOp(l, "give")
            IN /\ \A i \in 1..Len(l) :
                     /\ l[i].op = "transition_function" => i = fi
                     /\ l[i].op = "read" => i = ri
                     /\ (l[i].op = "write" /\ LockingSupplied(sm)) => l[i].b = 1
               /\ pc[t] \in {"apply", "check", "give", "callback", "returned"} =>
                     /\ 0 < ri /\ ri < fi
                     /\ l[fi].a = l[ri].a
                     /\ l[fi].a = call[t].s0
                     /\ l[fi].b = call[t].event
                     /\ LockingSupplied(sm) => l[ri].b = 1
                     /\ gi > 0 => (gi > fi /\ gi > wi)
               /\ pc[t] \in {"resolve", "apply"} =>
                     /\ LockingSupplied(sm) => mutex = t
                     /\ sm.current_state = call[t].s0
                     /\ loc[t].current_state = call[t].s0
                     /\ gi = 0

\* A dispatch on a function machine with a lock has called the transition
\* function and is about to write a state, while another thread's blocking
\* dispatch waits for the lock.
C20_Witness ==
    \E t, u \in Threads :
        /\ t # u
        /\ FunctionDispatch(t)
        /\ LockingSupplied(sm)
        /\ pc[t] = "apply"
        /\ IsStateChange(loc[t].ret, loc[t].transition)
        /\ call[u].op = "event"
        /\ pc[u] = "lock_take"
        /\ ~FlagSet(call[u].flags, STATE_MACHINE_NONBLOCK)

(* ---------------------------------------------------------------- *)
(* Transition functions that send the machine an event              *)
(* ---------------------------------------------------------------- *)

\* Thread t runs the transition function of one of its dispatches.
InResolver(t) == stack[t] # << >>

\* The transition function of thread t's dispatch is called, inside the
\* critical section, and calls state_machine_event(sm, event, event_data,
\* flags) on the same machine: the dispatch waits in the transition
\* function for the nested one to return.
resolver_reenter(t) ==
    /\ ~aborted
    /\ pc[t] = "resolve"
    /\ ~sm.using_table
    /\ Len(stack[t]) < MaxDepth
    /\ ncalls < MaxCalls
    /\ stack' = [stack EXCEPT ![t] = Append(@,
                    [call |-> call[t], loc |-> loc[t], log |-> log[t]])]
    /\ \E event \in 0..(MAX_EVENT - 1), flags \in {0, STATE_MACHINE_NONBLOCK} :
          call' = [call EXCEPT ![t] = [NoCall EXCEPT !.op = "event",
                                          !.event = event, !.flags = flags]]
    /\ pc' = [pc EXCEPT ![t] = "lock_take"]
    /\ loc' = [loc EXCEPT ![t] = NoLocals]
    /\ log' = [log EXCEPT ![t] = << >>]
    /\ ncalls' = ncalls + 1
    /\ UNCHANGED <<sm, mutex, serial, last, init, aborted, ctor, writes>>

\* The nested dispatch has returned into the transition function, which
\* returns its status and stores its transition: the dispatch that called
\* it goes on as after event_resolve(t).
resolver_return(t) ==
    /\ ~aborted
    /\ pc[t] = "returned"
    /\ InResolver(t)
    /\ LET f == Outer(t)
           r == transition_function(sm.function, f.loc.current_state, f.call.event)
       IN /\ call' = [call EXCEPT ![t] = f.call]
          /\ loc' = [loc EXCEPT ![t] =
                       [f.loc EXCEPT !.ret = r.ret, !.transition = r.transition]]
          /\ log' = [log EXCEPT ![t] = f.log \o
                       << Ev("state_machine_event", call[t].event, call[t].flags,
                             loc[t].ret),
                          Ev("transition_function", f.loc.current_state,
                             f.call.event, r.ret) >>]
    /\ stack' = [stack EXCEPT ![t] = SubSeq(@, 1, Len(@) - 1)]
    /\ pc' = [pc EXCEPT ![t] = "apply"]
    /\ UNCHANGED <<sm, mutex, serial, last, init, ncalls, aborted, ctor, writes>>

\* A machine with a lock, and transition functions that may send it events.
ResolverReentryNext ==
    \/ Next
    \/ \E t \in Threads : resolver_reenter(t)
    \/ \E t \in Threads : resolver_return(t)

ResolverReentrySpec == ReentrantInit /\ [][ResolverReentryNext]_vars

\* Thread t is in a blocking dispatch that the transition function of its
\* own dispatch has made, waiting in lock_take() for the lock that the
\* outer dispatch holds.
Deadlocked(t) ==
    /\ InResolver(t)
    /\ ~FlagSet(call[t].flags, STATE_MACHINE_NONBLOCK)
    /\ pc[t] = "lock_take"
    /\ mutex = t

(* ---------------------------------------------------------------- *)
(* C21                                                              *)
(* ---------------------------------------------------------------- *)

\* C21: on a machine with a non-reentrant lock, a blocking dispatch made
\* by the transition function of a dispatch of the same thread is at
\* lock_take(), which it cannot leave, with the lock held by its own
\* thread; and it stays so for ever: neither it nor the dispatch that
\* waits for it returns, and the lock is not given back.
C21_ResolverDeadlock ==
    /\ [](\A t \in Threads :
            (InResolver(t) /\ ~FlagSet(call[t].flags, STATE_MACHINE_NONBLOCK)) =>
                (Deadlocked(t) /\ ~ENABLED lock_take(t)))
    /\ [][\A t \in Threads : Deadlocked(t) =>
            (Deadlocked(t)' /\ stack'[t] = stack[t] /\ mutex' = mutex)]_vars

\* The transition function's blocking dispatch waits for the lock that the
\* dispatch which called the transition function took.
C21_Witness ==
    \E t \in Threads :
        /\ Deadlocked(t)
        /\ HasOp(Outer(t).log, "take")
        /\ ~HasOp(Outer(t).log, "give")

(* ---------------------------------------------------------------- *)
(* C22                                                              *)
(* ---------------------------------------------------------------- *)

\* C22: the on_enter callback of a dispatch has been called with the
\* dispatch's event, the next_state of the transition the dispatch applied
\* (the state it wrote) and the state it read after taking the lock; the
\* on_undefined_transition callback with the dispatch's event and the state
\* it read after taking the lock; whatever the machine's state is by then.
C22_CallbackArguments ==
    \A t \in Threads :
        LET l == log[t]
            i == FirstOp(l, "on_enter")
            j == FirstOp(l, "on_undefined_transition")
            r == FirstOp(l, "read")
            w == FirstOp(l, "write")
        IN /\ i # 0 =>
                /\ r # 0 /\ w # 0 /\ r < w /\ w < i
                /\ l[i].a = call[t].event
                /\ l[i].b = l[w].a
                /\ l[i].b = loc[t].transition.next_state
                /\ l[i].c = l[r].a
                /\ l[i].c = call[t].s0
           /\ j # 0 =>
                /\ r # 0 /\ w = 0 /\ r < j
                /\ l[j].a = call[t].event
                /\ l[j].b = l[r].a
                /\ l[j].b = call[t].s0

\* An on_enter callback has been called with a state that another thread's
\* dispatch has replaced since this one gave the lock back.
C22_Witness ==
    \E t \in Threads :
        /\ HasOp(log[t], "on_enter")
        /\ log[t][FirstOp(log[t], "on_enter")].b # sm.current_state

\* An on_undefined_transition callback has been called with a state that
\* another thread's dispatch has replaced since.
C22_WitnessUndefined ==
    \E t \in Threads :
        /\ HasOp(log[t], "on_undefined_transition")
        /\ log[t][FirstOp(log[t], "on_undefined_transition")].b # sm.current_state

(* ---------------------------------------------------------------- *)
(* C23                                                              *)
(* ---------------------------------------------------------------- *)

\* Thread t's call was made with STATE_MACHINE_NONBLOCK among its flags.
NonblockingCall(t) == call[t].flags >= STATE_MACHINE_NONBLOCK

\* C23: on a machine with a lock, a call that has got out of lock_take()
\* has called try_take() if it is nonblocking and take() if it is blocking,
\* as the first thing it did, and no call calls either a second time or
\* calls the other one; on a machine without a lock no call calls
\* try_take(), take() or give(), every call gets past lock_take() into the
\* critical section, and a call that returned STATE_MACHINE_WOULD_BLOCK is a
\* dispatch that got that status from its transition function or cleanup.
C23_AcquisitionMode ==
    \A t \in Threads :
        call[t].op # "none" =>
            LET l == log[t]
                nb == NonblockingCall(t)
            IN IF USE_LOCKING(sm)
               THEN /\ \A i \in 1..Len(l) :
                         /\ l[i].op = "try_take" => (nb /\ i = 1)
                         /\ l[i].op = "take" => (~nb /\ i = 1)
                    /\ pc[t] # "lock_take" =>
                         /\ Len(l) >= 1
                         /\ l[1].op = IF nb THEN "try_take" ELSE "take"
               ELSE /\ \A i \in 1..Len(l) : l[i].op \notin {"try_take", "take", "give"}
                    /\ pc[t] # "lock_take" => call[t].entered
                    /\ (pc[t] = "returned" /\ loc[t].ret = STATE_MACHINE_WOULD_BLOCK) =>
                         /\ call[t].op = "event"
                         /\ ~sm.using_table
                         /\ \/ Resolved(t, STATE_MACHINE_WOULD_BLOCK)
                            \/ HasOp(l, "cleanup")

\* A nonblocking dispatch on a machine without a lock has returned
\* STATE_MACHINE_SUCCESS, having changed the machine's state.
C23_Witness ==
    \E t \in Threads :
        /\ ~USE_LOCKING(sm)
        /\ NonblockingCall(t)
        /\ call[t].op = "event"
        /\ pc[t] = "returned"
        /\ loc[t].ret = STATE_MACHINE_SUCCESS
        /\ HasOp(log[t], "write")

\* On a machine with a lock a nonblocking call has returned after one
\* try_take() while a blocking call of another thread, past its take(),
\* is in the critical section.
C23_WitnessLocking ==
    \E t, u \in Threads :
        /\ USE_LOCKING(sm)
        /\ NonblockingCall(t) /\ pc[t] = "returned" /\ log[t][1].op = "try_take"
        /\ ~NonblockingCall(u) /\ pc[u] \in CriticalSection /\ log[u][1].op = "take"

(* ---------------------------------------------------------------- *)
(* C24                                                              *)
(* ---------------------------------------------------------------- *)

\* Thread t's call has taken the lock: its take() returned, or its
\* try_take() found the lock free.
Acquired(t) ==
    /\ Len(log[t]) >= 1
    /\ \/ log[t][1].op = "take"
       \/ log[t][1].op = "try_take" /\ log[t][1].a = NoThread

\* C24: on a machine with a lock, a call gives the lock at most once, and
\* only after it has taken it; a call that has returned after taking the
\* lock has given it exactly once, whether its dispatch applied a
\* transition, found none or had its transition function fail; a call
\* whose try_take() failed gives nothing; a thread holds the lock exactly
\* from its call's acquisition to that call's give(), so a thread whose
\* call has returned, or that has made no call, does not hold it.
C24_Balanced ==
    \A t \in Threads :
        LET l == log[t]
            g == FirstOp(l, "give")
        IN /\ \A i \in 1..Len(l) : l[i].op = "give" => i = g
           /\ g # 0 => (Acquired(t) /\ g > 1 /\ l[g].a = t)
           /\ (USE_LOCKING(sm) /\ pc[t] = "returned" /\ call[t].entered) =>
                (Acquired(t) /\ g # 0)
           /\ TryFailed(t) => (g = 0 /\ pc[t] = "returned" /\ ~call[t].entered)
           /\ mutex = t <=> (Acquired(t) /\ g = 0)
           /\ pc[t] \in {"idle", "returned"} => mutex # t

\* A dispatch whose transition function failed has returned, having given
\* the lock back once, and the lock is free.
C24_Witness ==
    \E t \in Threads :
        /\ pc[t] = "returned"
        /\ ResolverFailed(t)
        /\ HasOp(log[t], "give")
        /\ mutex = NoThread

\* A call whose try_take() failed has returned while the thread that held
\* the lock still holds it.
C24_WitnessWouldBlock ==
    \E t, u \in Threads :
        /\ TryFailed(t) /\ pc[t] = "returned"
        /\ mutex = u /\ u # t

\* A dispatch that found no transition and a state_machine_current_state()
\* have both returned after one give() each.
C24_WitnessNoTransition ==
    \E t, u \in Threads :
        /\ call[t].op = "event" /\ pc[t] = "returned"
        /\ HasOp(log[t], "give") /\ ~HasOp(log[t], "write") /\ ~ResolverFailed(t)
        /\ call[u].op = "current_state" /\ pc[u] = "returned" /\ HasOp(log[u], "give")

(* ---------------------------------------------------------------- *)
(* C25                                                              *)
(* ---------------------------------------------------------------- *)

\* Thread t's dispatch on a table machine got past lock_take().
TableDispatch(t) == Dispatching(t) /\ sm.using_table

\* C25: the status of a dispatch on a table machine that got past
\* lock_take() is STATE_MACHINE_SUCCESS all the way, and is what it
\* returns, also when the entry it found is not a transition: then it has
\* written nothing, and has called on_undefined_transition if the entry
\* has one.  A dispatch on a table machine returns another status only if
\* its try_take() failed.
C25_TableSuccess ==
    \A t \in Threads :
        (call[t].op = "event" /\ sm.using_table) =>
            /\ call[t].entered => loc[t].ret = STATE_MACHINE_SUCCESS
            /\ (pc[t] = "returned" /\ loc[t].ret # STATE_MACHINE_SUCCESS) =>
                  (TryFailed(t) /\ loc[t].ret = STATE_MACHINE_WOULD_BLOCK)
            /\ (pc[t] = "returned" /\ call[t].entered
                  /\ ~IS_TRANSITION(loc[t].transition)) =>
                  /\ ~HasOp(log[t], "write")
                  /\ ~HasOp(log[t], "on_enter")
                  /\ HasOp(log[t], "on_undefined_transition")
                        <=> loc[t].transition.on_undefined_transition # NULL

\* A dispatch on a table machine found no transition, called
\* on_undefined_transition and returned STATE_MACHINE_SUCCESS.
C25_Witness ==
    \E t \in Threads :
        /\ TableDispatch(t)
        /\ pc[t] = "returned"
        /\ HasOp(log[t], "on_undefined_transition")
        /\ loc[t].ret = STATE_MACHINE_SUCCESS

\* The same for an entry that has no on_undefined_transition.
C25_WitnessSilent ==
    \E t \in Threads :
        /\ TableDispatch(t)
        /\ pc[t] = "returned"
        /\ ~IS_TRANSITION(loc[t].transition)
        /\ ~HasOp(log[t], "on_undefined_transition")
        /\ loc[t].ret = STATE_MACHINE_SUCCESS

(* ---------------------------------------------------------------- *)
(* Threads that run, and a lock that is fair                        *)
(* ---------------------------------------------------------------- *)

\* What thread t does inside the two functions once lock_take() has
\* returned: straight-line code and calls of the embedder's transition
\* function, callbacks and cleanup, which return.
Step(t) ==
    \/ current_state_read(t)
    \/ current_state_give(t)
    \/ event_snapshot(t)
    \/ event_resolve(t)
    \/ event_apply(t)
    \/ event_check(t)
    \/ event_give(t)
    \/ event_callback(t)

LockedInit == Init /\ LockingSupplied(sm)

\* A machine with a lock.  A thread inside a function goes on running; a
\* thread in lock_take() gets the lock if the lock is free again and again
\* (a fair lock).  Nothing makes a thread call.
FairSpec ==
    /\ LockedInit
    /\ [][Next]_vars
    /\ \A t \in Threads : WF_vars(Step(t)) /\ SF_vars(lock_take(t))

\* Thread t is inside a blocking call.
InBlockingCall(t) ==
    /\ call[t].op # "none"
    /\ ~NonblockingCall(t)
    /\ pc[t] \notin {"idle", "returned", "aborted"}

(* ---------------------------------------------------------------- *)
(* C26                                                              *)
(* ---------------------------------------------------------------- *)

====
